---- MODULE Spec2Model ----
(***************************************************************************)
(* Model of bank_archive: the Caisse d'Epargne statement extractor.        *)
(*                                                                         *)
(*   SpecRows  CaisseEpargneExtractor.extract_rows   (cde.py 116-159)      *)
(*   SpecFix   CaisseEpargneExtractor.fix_table      (cde.py 103-114)      *)
(*   SpecDoc   extract_doc / extract_tables          (__main__.py 14-84)   *)
(*   SpecDocFair  SpecDoc with the pairing loop running on                 *)
(*   SpecGeo   the pairing loop on laid out pages    (__main__.py 62-72)   *)
(*   SpecNorm  fix_table and then extract_rows       (__main__.py 29, 78)  *)
(*   SpecDate  CaisseEpargneExtractor.parse_date     (cde.py 27-37)        *)
(*   SpecBatch the batch run over the pool           (__main__.py 94-104)  *)
(*                                                                         *)
(* Text is a sequence of one-character strings, so that strip(), lower(),  *)
(* replace() and Decimal() are computed character by character.  A cell of *)
(* a pandas table is either NaN (NA) or a text (S(t)).                     *)
(***************************************************************************)
EXTENDS Integers, Sequences, FiniteSets, TLC

VARIABLES
    \* ---- extract_rows
    table,      \* rows of the table that iterrows() has yielded so far
    results,    \* results: list of finalized StatementRow
    current,    \* current: <<>> is None, <<r>> is the open StatementRow r
    opened,     \* history: index in table of the row that opened each record
    df,         \* the DataFrame returned: <<>> before return, <<records>> after
    pc,         \* "loop", "returned" or "raised"
    exc,        \* the exception that left extract_rows, "none" if none
    \* ---- fix_table
    raw,        \* the table handed to fix_table, as it was: [labels, rows]
    fixed,      \* <<>>, or <<t>> once fix_table returned the table, now t
    fpc,        \* "call", "returned" or "raised"
    fexc,       \* the exception that left fix_table, "none" if none
    \* ---- extract_doc and extract_tables
    doc,        \* the document: what iter_starts and iter_ends yield, its name
    band,       \* iter_starts: the text above the header last found, <<>> before
    si,         \* number of starts taken from iter_starts
    ei,         \* number of ends taken from iter_ends
    page_rect,  \* page_rect: list of PageRect and None
    tables,     \* extract_tables: the grids read, each passed through fix_table
    ti,         \* extract_tables: number of grids taken by next(tables)
    pi,         \* extract_tables: number of entries of page_rect walked
    tcurrent,   \* extract_tables: current, <<>> is None
    yielded,    \* the combined tables yielded by extract_tables
    all_dfs,    \* extract_doc: all_dfs, one list of records per combined table
    out,        \* <<>>, or <<records>> once extract_doc returned
    dpc,        \* where extract_doc is
    dexc,       \* the exception that left extract_doc, "none" if none
    \* ---- parse_date
    stmt,       \* the statement year and month in the name of the document
    date_in,    \* the date cell: [day, month, text]
    date_out,   \* <<>>, or <<d>> once parse_date returned the date d
    date_pc,    \* "call", "returned" or "raised"
    \* ---- the batch run
    files,      \* files: for each document, how extract_doc ends on it
    wstate,     \* the pool: each task "queued", "running", "done" or "killed"
    finished,   \* history: the tasks in the order their workers completed
    all_data_per_doc,   \* the results list() has collected, as file indices
    report,     \* <<>>, or <<groups>> once the report files are written
    mpc,        \* where the main block is
    mexc        \* the exception that ended the main block, "none" if none

rowsVars == <<table, results, current, opened, df, pc, exc>>
fixVars == <<raw, fixed, fpc, fexc>>
docVars == <<doc, band, si, ei, page_rect, tables, ti, pi, tcurrent, yielded,
             all_dfs, out, dpc, dexc>>
dateVars == <<stmt, date_in, date_out, date_pc>>
batchVars == <<files, wstate, finished, all_data_per_doc, report, mpc, mexc>>
vars == <<table, results, current, opened, df, pc, exc, raw, fixed, fpc, fexc,
          doc, band, si, ei, page_rect, tables, ti, pi, tcurrent, yielded,
          all_dfs, out, dpc, dexc, stmt, date_in, date_out, date_pc,
          files, wstate, finished, all_data_per_doc, report, mpc, mexc>>

\* a part of the program that a specification does not run
IdleRows ==
    /\ table = <<>> /\ results = <<>> /\ current = <<>> /\ opened = <<>>
    /\ df = <<>> /\ pc = "idle" /\ exc = "none"
IdleFix == raw = <<>> /\ fixed = <<>> /\ fpc = "idle" /\ fexc = "none"
IdleDate == stmt = <<>> /\ date_in = <<>> /\ date_out = <<>> /\ date_pc = "idle"
IdleBatch ==
    /\ files = <<>> /\ wstate = <<>> /\ finished = <<>>
    /\ all_data_per_doc = <<>> /\ report = <<>>
    /\ mpc = "idle" /\ mexc = "none"
IdleDoc ==
    /\ doc = <<>> /\ band = <<>> /\ si = 0 /\ ei = 0 /\ page_rect = <<>> /\ tables = <<>>
    /\ ti = 0 /\ pi = 0 /\ tcurrent = <<>> /\ yielded = <<>> /\ all_dfs = <<>>
    /\ out = <<>> /\ dpc = "idle" /\ dexc = "none"

----------------------------------------------------------------------------
(* Bounds *)

MaxRows == 3        \* rows of a table walked by extract_rows
MaxCols == 6        \* columns of a table handed to fix_table
MaxFixRows == 2     \* rows of a table handed to fix_table
MaxPages == 2       \* pages of a document
MaxStarts == 3      \* table headers of a document
MaxEnds == 3        \* footer markers of a document
MaxYears == 2       \* years of the statements handed to parse_date
MaxFiles == 3       \* documents of a batch run
PoolSize == 2       \* worker processes of the pool
MaxItems == 4       \* headers and footer markers of a document laid out

----------------------------------------------------------------------------
(* Text and cells *)

NA == [na |-> TRUE, s |-> <<>>]
S(t) == [na |-> FALSE, s |-> t]
isna(c) == c.na

Newline == <<"\n">>

IsSpace(c) == c \in {" ", "\n", "\t"}

RECURSIVE lstrip(_)
lstrip(t) == IF t # <<>> /\ IsSpace(Head(t)) THEN lstrip(Tail(t)) ELSE t

RECURSIVE rstrip(_)
rstrip(t) ==
    IF t # <<>> /\ IsSpace(t[Len(t)]) THEN rstrip(SubSeq(t, 1, Len(t) - 1)) ELSE t

\* str.strip()
strip(t) == rstrip(lstrip(t))

LowerChar(c) ==
    CASE c = "D" -> "d"
      [] c = "A" -> "a"
      [] c = "T" -> "t"
      [] c = "E" -> "e"
      [] OTHER -> c

\* str.lower(), on the letters the model's texts use
lower(t) == [i \in 1..Len(t) |-> LowerChar(t[i])]

\* str.replace(old, new) for single characters; new = <<>> deletes
RECURSIVE replace(_, _, _)
replace(t, old, new) ==
    IF t = <<>> THEN <<>>
    ELSE (IF Head(t) = old THEN new ELSE <<Head(t)>>) \o replace(Tail(t), old, new)

----------------------------------------------------------------------------
(* Decimal: coeff * 10^exp, exactly as decimal.Decimal keeps it *)

DigitVal(c) ==
    CASE c = "0" -> 0 [] c = "1" -> 1 [] c = "2" -> 2 [] c = "3" -> 3
      [] c = "4" -> 4 [] c = "5" -> 5 [] c = "6" -> 6 [] c = "7" -> 7
      [] c = "8" -> 8 [] c = "9" -> 9

IsDigit(c) == c \in {"0", "1", "2", "3", "4", "5", "6", "7", "8", "9"}

RECURSIVE DigitsValue(_, _)
DigitsValue(t, acc) ==
    IF t = <<>> THEN acc ELSE DigitsValue(Tail(t), 10 * acc + DigitVal(Head(t)))

PointCount(t) == Cardinality({i \in 1..Len(t) : t[i] = "."})

\* Decimal(text): the digits without the point, and minus the number of
\* digits after the point as the exponent
Decimal(t) ==
    LET p == IF PointCount(t) = 0 THEN Len(t)
             ELSE CHOOSE i \in 1..Len(t) : t[i] = "."
    IN [coeff |-> DigitsValue(replace(t, ".", <<>>), 0), exp |-> p - Len(t)]

\* Decimal.__neg__ : the sign changes, the exponent stays (-0 is 0)
Neg(d) == [coeff |-> 0 - d.coeff, exp |-> d.exp]

\* a slip: the comma taken for a thousands separator
parse_value_DropComma(v) == Decimal(replace(replace(v, ",", <<>>), " ", <<>>))

parse_value(v) == Decimal(replace(replace(v, ",", <<".">>), " ", <<>>))

----------------------------------------------------------------------------
(* extract_rows *)

StatementRow(date, description, value) ==
    [date |-> date, description |-> description, value |-> value]

\* The cells the extraction engine can put in each column of a row.
DateCells == {NA, S(<<"3", "/", "6">>), S(<<" ", "D", "a", "t", "e">>)}
\* The description of the i-th row, when it has one, is the i-th letter: the
\* descriptions of a table are pairwise distinct, so a record shows which
\* rows it was built from.
Letters == <<"a", "b", "c", "d", "e", "f", "g", "h">>
DescrCells(i) == {NA, S(<<Letters[i]>>)}
DebitCells == {NA, S(<<"1", "2", ",", "5", "0">>)}
CreditCells == {NA, S(<<"1", " ", "2", "3", "4", ",", "0", "0">>)}

Rows(i) == DateCells \X DescrCells(i) \X DebitCells \X CreditCells

\* a slip: the surrounding whitespace is kept
IsHeader_NoStrip(date) == lower(date.s) = <<"d", "a", "t", "e">>

\* date.strip().lower() == "date"
IsHeader(date) == lower(strip(date.s)) = <<"d", "a", "t", "e">>

\* a slip: the row closed is put in front of the list
Finalize_Prepend(res, cur) == IF cur # <<>> THEN cur \o res ELSE res

\* if current: results.append(current)
Finalize(res, cur) == IF cur # <<>> THEN Append(res, cur[1]) ELSE res

\* line 144
NoAmount(debit, credit) == isna(debit) /\ isna(credit)

\* lines 146-149
SignedValue(debit, credit) ==
    IF isna(debit) THEN parse_value(credit.s) ELSE Neg(parse_value(debit.s))

\* a slip: the description is appended without the newline
Continued_NoNewline(cur, descr) ==
    StatementRow(cur.date, cur.description \o descr.s, cur.value)

\* lines 136-137
Continued(cur, descr) ==
    StatementRow(cur.date, cur.description \o Newline \o descr.s, cur.value)

\* lines 125-150: the branch of the loop body that a row takes, given the
\* open row
RowKind(cur, row) ==
    IF isna(row[2]) THEN "blank"
    ELSE IF isna(row[1])
         THEN IF cur = <<>> THEN "garbage"
              ELSE IF ~isna(row[3]) THEN "amount"
              ELSE IF ~isna(row[4]) THEN "amount"
              ELSE "continuation"
         ELSE IF IsHeader(row[1]) THEN "header"
              ELSE IF NoAmount(row[3], row[4]) THEN "malformed"
              ELSE "transaction"

\* line 150
Opened(row) == StatementRow(row[1].s, row[2].s, SignedValue(row[3], row[4]))

\* extract_rows as a function of the whole table, from row i on
RECURSIVE ExtractFrom(_, _, _, _)
ExtractFrom(t, i, res, cur) ==
    IF i > Len(t) THEN [exc |-> "none", rows |-> Finalize(res, cur)]
    ELSE LET kind == RowKind(cur, t[i])
         IN CASE kind = "continuation" ->
                    ExtractFrom(t, i + 1, res, <<Continued(cur[1], t[i][2])>>)
              [] kind = "transaction" ->
                    ExtractFrom(t, i + 1, Finalize(res, cur), <<Opened(t[i])>>)
              [] kind = "malformed" -> [exc |-> "MalformedError", rows |-> <<>>]
              [] OTHER -> ExtractFrom(t, i + 1, res, cur)

extract_rows(t) == ExtractFrom(t, 1, <<>>, <<>>)

InitRows ==
    /\ table = <<>>
    /\ results = <<>>
    /\ current = <<>>
    /\ opened = <<>>
    /\ df = <<>>
    /\ pc = "loop"
    /\ exc = "none"
    /\ IdleFix
    /\ IdleDoc
    /\ IdleDate
    /\ IdleBatch

\* the loop takes the next row of the table
Yield(row) ==
    /\ pc = "loop"
    /\ Len(table) < MaxRows
    /\ table' = Append(table, row)
    /\ UNCHANGED <<fixVars, docVars, dateVars, batchVars>>

\* line 125: empty description
SkipBlank(row) ==
    /\ Yield(row)
    /\ RowKind(current, row) = "blank"
    /\ UNCHANGED <<results, current, opened, df, pc, exc>>

\* lines 129-131: continuation before any row is open
SkipHeadingGarbage(row) ==
    /\ Yield(row)
    /\ RowKind(current, row) = "garbage"
    /\ UNCHANGED <<results, current, opened, df, pc, exc>>

\* lines 132-135: continuation carrying an amount
SkipAmountContinuation(row) ==
    /\ Yield(row)
    /\ RowKind(current, row) = "amount"
    /\ UNCHANGED <<results, current, opened, df, pc, exc>>

\* lines 136-137
Continuation(row) ==
    /\ Yield(row)
    /\ RowKind(current, row) = "continuation"
    /\ current' = <<Continued(current[1], row[2])>>
    /\ UNCHANGED <<results, opened, df, pc, exc>>

\* a slip: the header met again closes the open row (the test of line 140
\* placed after line 142)
SkipHeader_Closes(row) ==
    /\ Yield(row)
    /\ RowKind(current, row) = "header"
    /\ results' = Finalize(results, current)
    /\ current' = <<>>
    /\ UNCHANGED <<opened, df, pc, exc>>

\* lines 140-141: the header met again
SkipHeader(row) ==
    /\ Yield(row)
    /\ RowKind(current, row) = "header"
    /\ UNCHANGED <<results, current, opened, df, pc, exc>>

\* a slip: the amounts are tested only while no row is open
RaiseMalformed_OnlyFirst(row) ==
    /\ Yield(row)
    /\ RowKind(current, row) = "malformed"
    /\ IF current = <<>>
       THEN /\ pc' = "raised"
            /\ exc' = "MalformedError"
            /\ UNCHANGED <<results, current, opened, df>>
       ELSE UNCHANGED <<results, current, opened, df, pc, exc>>

\* lines 142-145: the open row is finalized, then the exception leaves
RaiseMalformed(row) ==
    /\ Yield(row)
    /\ RowKind(current, row) = "malformed"
    /\ results' = Finalize(results, current)
    /\ pc' = "raised"
    /\ exc' = "MalformedError"
    /\ UNCHANGED <<current, opened, df>>

\* lines 142-150
NewTransaction(row) ==
    /\ Yield(row)
    /\ RowKind(current, row) = "transaction"
    /\ results' = Finalize(results, current)
    /\ current' = <<Opened(row)>>
    /\ opened' = Append(opened, Len(table) + 1)
    /\ UNCHANGED <<df, pc, exc>>

\* lines 152-159: the table is exhausted
Return ==
    /\ pc = "loop"
    /\ results' = Finalize(results, current)
    /\ df' = <<Finalize(results, current)>>
    /\ pc' = "returned"
    /\ UNCHANGED <<table, current, opened, exc>>
    /\ UNCHANGED <<fixVars, docVars, dateVars, batchVars>>

NextRows ==
    \/ \E row \in Rows(Len(table) + 1) : SkipBlank(row)
    \/ \E row \in Rows(Len(table) + 1) : SkipHeadingGarbage(row)
    \/ \E row \in Rows(Len(table) + 1) : SkipAmountContinuation(row)
    \/ \E row \in Rows(Len(table) + 1) : Continuation(row)
    \/ \E row \in Rows(Len(table) + 1) : SkipHeader(row)
    \/ \E row \in Rows(Len(table) + 1) : RaiseMalformed(row)
    \/ \E row \in Rows(Len(table) + 1) : NewTransaction(row)
    \/ Return

SpecRows == InitRows /\ [][NextRows]_vars

----------------------------------------------------------------------------
(* fix_table *)

COLUMNS == <<"date", "description", "debit", "credit">>

\* The labels of the columns of a raw table: pairwise distinct names.
ColNames == <<"c1", "c2", "c3", "c4", "c5", "c6", "c7", "c8">>
Digits == <<"1", "2", "3", "4", "5", "6", "7", "8">>

\* The text of the cell of row r and column c, when it has one, names its
\* place, so a normalized table shows where each of its texts came from.
CellText(r, c) == <<Letters[r], Digits[c]>>

\* A row of n columns.  Its description and middle columns (2 .. n-2) are
\* each empty or not; its first and last two columns are those of a
\* transaction (date and debit) when txn, and empty otherwise.
RawRow(r, n, txn, filled) ==
    [c \in 1..n |->
        IF c = 2 \/ (c >= 3 /\ c <= n - 2)
        THEN IF c \in filled THEN S(CellText(r, c)) ELSE NA
        ELSE IF txn /\ (c = 1 \/ c = n - 1) THEN S(CellText(r, c)) ELSE NA]

\* A table of n columns whose k rows are given by shape: for each row,
\* whether it is a transaction and which of its middle cells are filled.
RawTable(n, k, shape) ==
    [labels |-> SubSeq(ColNames, 1, n),
     rows |-> [r \in 1..k |-> RawRow(r, n, shape[r][1], shape[r][2])]]

\* table.shape[1]
NCols(t) == Len(t.labels)

\* a slip: the slice taken through the 2nd-to-last column
ExtraCols_ToSecondLast(n) == [i \in 1..(n - 3) |-> i + 2]

\* line 108: the positions of table.iloc[:, 2:-2], in order
ExtraCols(n) == [i \in 1..(n - 4) |-> i + 2]

\* a slip: na_rep left out of account, an empty cell printed as "nan"
NaRep_Nan(c) == IF isna(c) THEN <<"n", "a", "n">> ELSE c.s

\* na_rep="": an empty cell counts as the empty text
NaRep(c) == IF isna(c) THEN <<>> ELSE c.s

RECURSIVE CatFrom(_, _, _)
CatFrom(row, extra, i) ==
    IF i > Len(extra) THEN <<>>
    ELSE Newline \o NaRep(row[extra[i]]) \o CatFrom(row, extra, i + 1)

\* line 109: Series.str.cat(extra, sep="\n", na_rep=""), for one row
StrCat(row, extra) == S(NaRep(row[2]) \o CatFrom(row, extra, 1))

\* the positions 1..n that are in keep, in increasing order
RECURSIVE Kept(_, _, _)
Kept(c, n, keep) ==
    IF c > n THEN <<>>
    ELSE (IF c \in keep THEN <<c>> ELSE <<>>) \o Kept(c + 1, n, keep)

\* line 110: table.drop(extra, axis=1) drops the columns by their labels
Drop(t, extra) ==
    LET dropped == {t.labels[extra[i]] : i \in 1..Len(extra)}
        keep == {c \in 1..NCols(t) : t.labels[c] \notin dropped}
        pos == Kept(1, NCols(t), keep)
    IN [labels |-> [k \in 1..Len(pos) |-> t.labels[pos[k]]],
        rows |-> [r \in 1..Len(t.rows) |->
                    [k \in 1..Len(pos) |-> t.rows[r][pos[k]]]]]

\* lines 112-113: zip(table, COLUMNS) pairs the first labels with the new
\* names, and rename gives each column whose label is paired its new name
Rename(t) ==
    LET m == IF NCols(t) < Len(COLUMNS) THEN NCols(t) ELSE Len(COLUMNS)
        NewName(l) ==
            IF \E k \in 1..m : t.labels[k] = l
            THEN COLUMNS[CHOOSE k \in 1..m :
                    t.labels[k] = l /\ \A j \in (k + 1)..m : t.labels[j] # l]
            ELSE l
    IN [labels |-> [c \in 1..NCols(t) |-> NewName(t.labels[c])],
        rows |-> t.rows]

\* line 109: the description column replaced by the joined texts
Catted(t, extra) ==
    [labels |-> t.labels,
     rows |-> [r \in 1..Len(t.rows) |->
                [c \in 1..NCols(t) |->
                    IF c = 2 THEN StrCat(t.rows[r], extra) ELSE t.rows[r][c]]]]

InitFix ==
    /\ \E n \in 1..MaxCols, k \in 0..MaxFixRows :
        \E shape \in [1..k -> BOOLEAN \X SUBSET ({2} \cup 3..(n - 2))] :
            raw = RawTable(n, k, shape)
    /\ fixed = <<>>
    /\ fpc = "call"
    /\ fexc = "none"
    /\ IdleRows
    /\ IdleDoc
    /\ IdleDate
    /\ IdleBatch

\* lines 105-106
FixRaise ==
    /\ fpc = "call"
    /\ NCols(raw) < Len(COLUMNS)
    /\ fpc' = "raised"
    /\ fexc' = "MalformedError"
    /\ UNCHANGED <<raw, fixed>>
    /\ UNCHANGED <<rowsVars, docVars, dateVars, batchVars>>

\* lines 107-114
FixWide ==
    /\ fpc = "call"
    /\ NCols(raw) > Len(COLUMNS)
    /\ LET extra == ExtraCols(NCols(raw))
       IN fixed' = <<Rename(Drop(Catted(raw, extra), extra))>>
    /\ fpc' = "returned"
    /\ UNCHANGED <<raw, fexc>>
    /\ UNCHANGED <<rowsVars, docVars, dateVars, batchVars>>

\* lines 112-114
FixExact ==
    /\ fpc = "call"
    /\ NCols(raw) = Len(COLUMNS)
    /\ fixed' = <<Rename(raw)>>
    /\ fpc' = "returned"
    /\ UNCHANGED <<raw, fexc>>
    /\ UNCHANGED <<rowsVars, docVars, dateVars, batchVars>>

NextFix ==
    \/ FixRaise
    \/ FixWide
    \/ FixExact

SpecFix == InitFix /\ [][NextFix]_vars

----------------------------------------------------------------------------
(* Properties of fix_table *)

TextOf(c) == IF c.na THEN <<>> ELSE c.s

RECURSIVE JoinedThrough(_, _, _)
JoinedThrough(row, c, last) ==
    IF c > last THEN <<>>
    ELSE <<"\n">> \o TextOf(row[c]) \o JoinedThrough(row, c + 1, last)

\* C10 as claimed: with more than 4 columns the normalized description is
\* the 2nd column newline-joined with the 3rd through the 2nd-to-last.
C10_AsClaimed ==
    fpc = "returned" /\ NCols(raw) > 4 =>
        \A r \in 1..Len(raw.rows) :
            fixed[1].rows[r][2].s =
                TextOf(raw.rows[r][2]) \o JoinedThrough(raw.rows[r], 3, NCols(raw) - 1)

\* C10 amended: with more than 4 columns the normalized description is the
\* 2nd column newline-joined with the 3rd through the 3RD-to-last column
\* (empty cells as the empty text), in every row, and these merged columns
\* are exactly the ones missing from the result.
C10_NoDataLoss ==
    fpc = "returned" /\ NCols(raw) > 4 =>
        /\ \A r \in 1..Len(raw.rows) :
            /\ ~fixed[1].rows[r][2].na
            /\ fixed[1].rows[r][2].s =
                TextOf(raw.rows[r][2]) \o JoinedThrough(raw.rows[r], 3, NCols(raw) - 2)
        /\ NCols(fixed[1]) = 4
        /\ \A r \in 1..Len(raw.rows) :
            <<fixed[1].rows[r][1], fixed[1].rows[r][3], fixed[1].rows[r][4]>>
                = <<raw.rows[r][1], raw.rows[r][NCols(raw) - 1], raw.rows[r][NCols(raw)]>>

\* C10 witness: a row of a 6-column table whose description and 4th column
\* are filled and whose 3rd column is empty, joined as "a2", "", "a4".
C10_Witness ==
    /\ fpc = "returned" /\ NCols(raw) = 6 /\ Len(raw.rows) >= 1
    /\ fixed[1].rows[1][2].s = <<"a", "2", "\n", "\n", "a", "4">>

----------------------------------------------------------------------------
(* parse_date *)

\* the place of the first "/" of a text, 0 if it has none
RECURSIVE FindSlash(_, _)
FindSlash(t, i) ==
    IF i > Len(t) THEN 0 ELSE IF t[i] = "/" THEN i ELSE FindSlash(t, i + 1)

\* a slip: every December date is moved to the year before, whatever the
\* month of the statement
parse_date_AnyDecember(name, date) ==
    LET k == FindSlash(date, 1)
        day == DigitsValue(SubSeq(date, 1, k - 1), 0)
        month == DigitsValue(SubSeq(date, k + 1, Len(date)), 0)
    IN [year |-> IF month = 12 THEN name.year - 1 ELSE name.year,
        month |-> month,
        day |-> day]

\* cde.py 29-37, given the year and month read from the document's name
parse_date(name, date) ==
    LET k == FindSlash(date, 1)
        day == DigitsValue(SubSeq(date, 1, k - 1), 0)
        month == DigitsValue(SubSeq(date, k + 1, Len(date)), 0)
    IN [year |-> IF name.month = 1 /\ month = 12 THEN name.year - 1 ELSE name.year,
        month |-> month,
        day |-> day]

\* the decimal digits of a number, as text
DigitChar(n) == <<"0", "1", "2", "3", "4", "5", "6", "7", "8", "9">>[n + 1]
TwoDigits(n) == <<DigitChar(n \div 10), DigitChar(n % 10)>>
FourDigits(n) == TwoDigits(n \div 100) \o TwoDigits(n % 100)

\* the name of the statement of a month: RELEVES_<account>_<yyyymmdd>.pdf
NameOf(year, month) ==
    <<"R", "E", "L", "E", "V", "E", "S", "_", "0", "1", "_">>
        \o FourDigits(year) \o TwoDigits(month) \o <<"0", "5", ".", "p", "d", "f">>

\* RELEVES_.+?_([0-9]{4})([0-9]{2})[0-9]{2} matched with its "_" at i
NameMatchesAt(t, i) ==
    /\ i >= 10 /\ i + 8 <= Len(t)
    /\ SubSeq(t, 1, 8) = <<"R", "E", "L", "E", "V", "E", "S", "_">>
    /\ t[i] = "_"
    /\ \A j \in (i + 1)..(i + 8) : IsDigit(t[j])

\* cde.py 29-32: the two groups of the search in doc.name, as numbers
NameGroups(t) ==
    LET i == CHOOSE j \in 1..Len(t) :
                NameMatchesAt(t, j) /\ \A k \in 1..(j - 1) : ~NameMatchesAt(t, k)
    IN [year |-> DigitsValue(SubSeq(t, i + 1, i + 4), 0),
        month |-> DigitsValue(SubSeq(t, i + 5, i + 6), 0)]

\* datetime.date (cde.py 37) takes the dates of the calendar only
IsLeap(y) == (y % 4 = 0 /\ y % 100 # 0) \/ y % 400 = 0
DaysIn(y, mo) ==
    IF mo = 2 THEN (IF IsLeap(y) THEN 29 ELSE 28)
    ELSE IF mo \in {4, 6, 9, 11} THEN 30 ELSE 31
ValidDate(d) ==
    /\ d.month \in 1..12
    /\ d.day >= 1 /\ d.day <= DaysIn(d.year, d.month)

\* the statements and the date cells of the model
StatementYears == 2023..(2022 + MaxYears)
Days == {1, 9, 15, 29, 31}
\* the cell as printed: day/month, each on two digits or without zeros
DateText(day, month, padded) ==
    IF padded THEN TwoDigits(day) \o <<"/">> \o TwoDigits(month)
    ELSE (IF day < 10 THEN <<DigitChar(day)>> ELSE TwoDigits(day)) \o <<"/">>
            \o (IF month < 10 THEN <<DigitChar(month)>> ELSE TwoDigits(month))

InitDate ==
    /\ \E y \in StatementYears, sm \in 1..12 :
        stmt = [year |-> y, month |-> sm, name |-> NameOf(y, sm)]
    /\ \E day \in Days, month \in 1..12, padded \in BOOLEAN :
        date_in = [day |-> day, month |-> month, text |-> DateText(day, month, padded)]
    /\ date_out = <<>>
    /\ date_pc = "call"
    /\ IdleRows
    /\ IdleFix
    /\ IdleDoc
    /\ IdleBatch

\* cde.py 29-37
DateReturn ==
    /\ date_pc = "call"
    /\ ValidDate(parse_date(NameGroups(stmt.name), date_in.text))
    /\ date_out' = <<parse_date(NameGroups(stmt.name), date_in.text)>>
    /\ date_pc' = "returned"
    /\ UNCHANGED <<stmt, date_in>>
    /\ UNCHANGED <<rowsVars, fixVars, docVars, batchVars>>

\* cde.py 37: datetime.date raises ValueError
DateRaise ==
    /\ date_pc = "call"
    /\ ~ValidDate(parse_date(NameGroups(stmt.name), date_in.text))
    /\ date_pc' = "raised"
    /\ UNCHANGED <<stmt, date_in, date_out>>
    /\ UNCHANGED <<rowsVars, fixVars, docVars, batchVars>>

NextDate ==
    \/ DateReturn
    \/ DateRaise

SpecDate == InitDate /\ [][NextDate]_vars

----------------------------------------------------------------------------
(* The document: what iter_starts and iter_ends yield *)

Accounts == {"N1", "N2"}

\* iter_starts (cde.py 40-54): headers page after page, each with the
\* account read above it
NonDecreasing(q) == \A i \in 1..(Len(q) - 1) : q[i].page <= q[i + 1].page

\* iter_ends (cde.py 57-65), one page: every "NOUVEAU SOLDE" as a hard end,
\* then at most one soft end
EndsOfPage(p, hard, soft) ==
    [i \in 1..hard |-> [page |-> p, is_break |-> TRUE]]
        \o (IF soft THEN <<[page |-> p, is_break |-> FALSE]>> ELSE <<>>)

RECURSIVE EndsFrom(_, _)
EndsFrom(p, f) ==
    IF p > MaxPages THEN <<>>
    ELSE EndsOfPage(p, f[p][1], f[p][2]) \o EndsFrom(p + 1, f)

\* REGEXP_ACCOUNT_NUM (cde.py 21): N°([\s0-9a-z]+)
IsLower(c) ==
    c \in {"a", "b", "c", "d", "e", "f", "g", "h", "i", "j", "k", "l", "m", "n",
           "o", "p", "q", "r", "s", "t", "u", "v", "w", "x", "y", "z"}
InAccountClass(c) == IsSpace(c) \/ IsDigit(c) \/ IsLower(c)

\* the greedy +: the last index of the run of class characters that holds i
RECURSIVE RunEnd(_, _)
RunEnd(t, i) ==
    IF i < Len(t) /\ InAccountClass(t[i + 1]) THEN RunEnd(t, i + 1) ELSE i

MatchesAt(t, i) ==
    /\ i + 2 <= Len(t)
    /\ t[i] = "N" /\ t[i + 1] = "°"
    /\ InAccountClass(t[i + 2])

\* REGEXP_ACCOUNT_NUM.search(t): <<>> is None, else <<group(1)>> of the
\* leftmost match
search(t) ==
    IF \E i \in 1..Len(t) : MatchesAt(t, i)
    THEN LET i == CHOOSE j \in 1..Len(t) :
                    MatchesAt(t, j) /\ \A k \in 1..(j - 1) : ~MatchesAt(t, k)
         IN <<SubSeq(t, i + 2, RunEnd(t, i + 2))>>
    ELSE <<>>

\* the number an account is printed with
AccountText(account) == IF account = "N1" THEN <<"0", "1">> ELSE <<"0", "2">>

\* iter_starts (cde.py 45-51): the words found in the band above a header,
\* joined by spaces; the band holds the account label, or other words only,
\* or a label cut before its number
BandShapes == {"label", "words", "cut"}
Band(account, shape) ==
    CASE shape = "label" ->
            <<"C", "p", "t", "e", " ", "N", "°", " ">> \o AccountText(account)
                \o <<" ", "E", "U", "R">>
      [] shape = "words" -> <<"C", "p", "t", "e", " ">> \o AccountText(account)
      [] shape = "cut" -> <<"C", "p", "t", "e", " ", "N", "°">>

\* the statement year and month in the name of the documents of the model
DocName == [year |-> 2023, month |-> 1]

----------------------------------------------------------------------------
(* extract_doc: pairing starts and ends (__main__.py 59-72) *)

None == [kind |-> "None"]

\* PageRect; its rect and columns are computed by search_area and columns_x
\* from the header and the footer paired, kept here as that pair
PageRect(page, start, end, account) ==
    [kind |-> "PageRect", page |-> page, rect |-> <<start, end>>, account |-> account]

InitDoc ==
    /\ \E n \in 0..MaxStarts :
        \E starts \in [1..n -> [page : 1..MaxPages, account : Accounts]],
           f \in [1..MaxPages -> (0..MaxEnds) \X BOOLEAN] :
            /\ NonDecreasing(starts)
            /\ Len(EndsFrom(1, f)) <= MaxEnds
            /\ doc = [starts |-> starts, ends |-> EndsFrom(1, f), name |-> DocName]
    /\ band = <<>> /\ si = 0 /\ ei = 0 /\ page_rect = <<>> /\ tables = <<>>
    /\ ti = 0 /\ pi = 0 /\ tcurrent = <<>> /\ yielded = <<>> /\ all_dfs = <<>>
    /\ out = <<>> /\ dpc = "starts" /\ dexc = "none"
    /\ IdleRows
    /\ IdleFix
    /\ IdleDate
    /\ IdleBatch

\* a slip: the separator emitted after a soft end
Separator_OnSoft(is_break) == IF is_break THEN <<>> ELSE <<None>>

\* lines 71-72
Separator(is_break) == IF is_break THEN <<None>> ELSE <<>>

\* line 63: the for loop takes the next start; iter_starts (cde.py 45-54)
\* reads the account in the band above the header and yields
TakeStart ==
    /\ dpc = "starts"
    /\ si < Len(doc.starts)
    /\ \E shape \in BandShapes : band' = Band(doc.starts[si + 1].account, shape)
    /\ search(band') # <<>>
    /\ strip(search(band')[1]) = AccountText(doc.starts[si + 1].account)
    /\ si' = si + 1
    /\ dpc' = "ends"
    /\ UNCHANGED <<doc, ei, page_rect, tables, ti, pi, tcurrent, yielded,
                   all_dfs, out, dexc>>
    /\ UNCHANGED <<rowsVars, fixVars, dateVars, batchVars>>

\* line 63, cde.py 53: the band holds no account, search() returns None and
\* None.group(1) raises AttributeError out of the generator
StartFails ==
    /\ dpc = "starts"
    /\ si < Len(doc.starts)
    /\ \E shape \in BandShapes : band' = Band(doc.starts[si + 1].account, shape)
    /\ search(band') = <<>>
    /\ dpc' = "raised"
    /\ dexc' = "AttributeError"
    /\ UNCHANGED <<doc, si, ei, page_rect, tables, ti, pi, tcurrent, yielded,
                   all_dfs, out>>
    /\ UNCHANGED <<rowsVars, fixVars, dateVars, batchVars>>

\* lines 65-67: next(ends) is an end of another page
SkipEnd ==
    /\ dpc = "ends"
    /\ ei < Len(doc.ends)
    /\ doc.ends[ei + 1].page # doc.starts[si].page
    /\ ei' = ei + 1
    /\ UNCHANGED <<doc, band, si, page_rect, tables, ti, pi, tcurrent, yielded,
                   all_dfs, out, dpc, dexc>>
    /\ UNCHANGED <<rowsVars, fixVars, dateVars, batchVars>>

\* a slip: the page of the end is not compared with the page of the start
MatchEnd_AnyPage ==
    /\ dpc = "ends"
    /\ ei < Len(doc.ends)
    /\ ei' = ei + 1
    /\ page_rect' = page_rect
            \o <<PageRect(doc.starts[si].page, si, ei + 1, doc.starts[si].account)>>
            \o Separator(doc.ends[ei + 1].is_break)
    /\ dpc' = "starts"
    /\ UNCHANGED <<doc, band, si, tables, ti, pi, tcurrent, yielded, all_dfs, out, dexc>>
    /\ UNCHANGED <<rowsVars, fixVars, dateVars, batchVars>>

\* lines 65-72: next(ends) is an end of the start's page
MatchEnd ==
    /\ dpc = "ends"
    /\ ei < Len(doc.ends)
    /\ doc.ends[ei + 1].page = doc.starts[si].page
    /\ ei' = ei + 1
    /\ page_rect' = page_rect
            \o <<PageRect(doc.starts[si].page, si, ei + 1, doc.starts[si].account)>>
            \o Separator(doc.ends[ei + 1].is_break)
    /\ dpc' = "starts"
    /\ UNCHANGED <<doc, band, si, tables, ti, pi, tcurrent, yielded, all_dfs, out, dexc>>
    /\ UNCHANGED <<rowsVars, fixVars, dateVars, batchVars>>

\* line 65: next(ends) on the exhausted generator
EndsExhausted ==
    /\ dpc = "ends"
    /\ ei = Len(doc.ends)
    /\ dpc' = "raised"
    /\ dexc' = "StopIteration"
    /\ UNCHANGED <<doc, band, si, ei, page_rect, tables, ti, pi, tcurrent, yielded,
                   all_dfs, out>>
    /\ UNCHANGED <<rowsVars, fixVars, dateVars, batchVars>>

----------------------------------------------------------------------------
(* The pairing loop on documents whose pages are laid out *)

\* A layout lists the headers and footer markers of a document page after
\* page and, on a page, from top to bottom; the place of an item in the
\* list stands for its height y on its page.
ItemKinds == {"start", "hard", "soft"}

\* the items of one kind on page p, from place i on, with their places
RECURSIVE ItemsOf(_, _, _, _)
ItemsOf(layout, i, p, kind) ==
    IF i > Len(layout) THEN <<>>
    ELSE (IF layout[i].page = p /\ layout[i].kind = kind THEN <<i>> ELSE <<>>)
            \o ItemsOf(layout, i + 1, p, kind)

\* iter_starts (cde.py 40-54): the headers of each page as found, top down
RECURSIVE StartsOfLayout(_, _)
StartsOfLayout(layout, p) ==
    IF p > MaxPages THEN <<>>
    ELSE LET at == ItemsOf(layout, 1, p, "start")
         IN [k \in 1..Len(at) |-> [page |-> p, account |-> "N1", y |-> at[k]]]
                \o StartsOfLayout(layout, p + 1)

\* iter_ends (cde.py 57-65): on each page every hard end as found, top
\* down, and then the soft end
RECURSIVE EndsOfLayout(_, _)
EndsOfLayout(layout, p) ==
    IF p > MaxPages THEN <<>>
    ELSE LET hard == ItemsOf(layout, 1, p, "hard")
             soft == ItemsOf(layout, 1, p, "soft")
         IN [k \in 1..Len(hard) |-> [page |-> p, is_break |-> TRUE, y |-> hard[k]]]
                \o [k \in 1..Len(soft) |-> [page |-> p, is_break |-> FALSE, y |-> soft[k]]]
                \o EndsOfLayout(layout, p + 1)

InitGeo ==
    /\ \E n \in 0..MaxItems :
        \E layout \in [1..n -> [page : 1..MaxPages, kind : ItemKinds]] :
            /\ NonDecreasing(layout)
            /\ \A p \in 1..MaxPages : Len(ItemsOf(layout, 1, p, "soft")) <= 1
            /\ doc = [starts |-> StartsOfLayout(layout, 1),
                      ends |-> EndsOfLayout(layout, 1),
                      name |-> DocName]
    /\ band = <<>> /\ si = 0 /\ ei = 0 /\ page_rect = <<>> /\ tables = <<>>
    /\ ti = 0 /\ pi = 0 /\ tcurrent = <<>> /\ yielded = <<>> /\ all_dfs = <<>>
    /\ out = <<>> /\ dpc = "starts" /\ dexc = "none"
    /\ IdleRows
    /\ IdleFix
    /\ IdleDate
    /\ IdleBatch

\* __main__.py 62-72
NextGeo ==
    \/ TakeStart
    \/ StartFails
    \/ SkipEnd
    \/ MatchEnd
    \/ EndsExhausted

SpecGeo == InitGeo /\ [][NextGeo]_vars

----------------------------------------------------------------------------
(* extract_tables (__main__.py 14-50) *)

\* the PageRects of page_rect, in order
RECURSIVE Regions(_)
Regions(q) ==
    IF q = <<>> THEN <<>>
    ELSE (IF Head(q).kind = "None" THEN <<>> ELSE <<Head(q)>>) \o Regions(Tail(q))

\* The grid the extraction engine reads in the k-th region, after fix_table:
\* 4 columns, a continuation row and then a transaction row, whose
\* descriptions name the region.
Grid(k) ==
    << <<NA, S(<<Letters[k], "+">>), NA, NA>>,
       <<S(<<"3", "/", "6">>), S(<<Letters[k]>>), S(<<"1", "2", ",", "5", "0">>), NA>> >>

\* the grids of the regions in read, in the order of the regions
RECURSIVE GridsOf(_, _, _)
GridsOf(k, n, read) ==
    IF k > n THEN <<>>
    ELSE (IF k \in read THEN <<[region |-> k, rows |-> Grid(k)]>> ELSE <<>>)
            \o GridsOf(k + 1, n, read)

\* lines 42-45; regions is history: the grids concatenated into the table
Concat(cur, page, latest) ==
    IF cur = <<>>
    THEN <<[account |-> page.account, rows |-> latest.rows, regions |-> <<latest.region>>]>>
    ELSE <<[account |-> page.account,
            rows |-> cur[1].rows \o latest.rows,
            regions |-> Append(cur[1].regions, latest.region)]>>

\* a slip: the table accumulated is not reset at a break
AfterBreak_Kept(cur) == cur

\* line 37
AfterBreak(cur) == <<>>

\* if current is not None: yield current
Flush(ys, cur) == IF cur # <<>> THEN Append(ys, cur[1]) ELSE ys

\* line 74 into lines 15-29: the template is sent to the extraction engine,
\* which reads a grid in each region or in some of them only
ReadPdf ==
    /\ dpc = "starts"
    /\ si = Len(doc.starts)
    /\ \E read \in SUBSET (1..Len(Regions(page_rect))) :
        tables' = GridsOf(1, Len(Regions(page_rect)), read)
    /\ dpc' = "tables"
    /\ UNCHANGED <<doc, band, si, ei, page_rect, ti, pi, tcurrent, yielded,
                   all_dfs, out, dexc>>
    /\ UNCHANGED <<rowsVars, fixVars, dateVars, batchVars>>

\* lines 32-37: a break
TablesBreak ==
    /\ dpc = "tables"
    /\ pi < Len(page_rect)
    /\ page_rect[pi + 1].kind = "None"
    /\ pi' = pi + 1
    /\ yielded' = Flush(yielded, tcurrent)
    /\ tcurrent' = AfterBreak(tcurrent)
    /\ UNCHANGED <<doc, band, si, ei, page_rect, tables, ti, all_dfs, out, dpc, dexc>>
    /\ UNCHANGED <<rowsVars, fixVars, dateVars, batchVars>>

\* lines 38-45: a region, and the engine has a grid left
TablesConcat ==
    /\ dpc = "tables"
    /\ pi < Len(page_rect)
    /\ page_rect[pi + 1].kind = "PageRect"
    /\ ti < Len(tables)
    /\ pi' = pi + 1
    /\ ti' = ti + 1
    /\ tcurrent' = Concat(tcurrent, page_rect[pi + 1], tables[ti + 1])
    /\ UNCHANGED <<doc, band, si, ei, page_rect, tables, yielded, all_dfs, out, dpc, dexc>>
    /\ UNCHANGED <<rowsVars, fixVars, dateVars, batchVars>>

\* a slip: the generator returns where it should break, and the table
\* accumulated is lost
TablesExhausted_Dropped ==
    /\ dpc = "tables"
    /\ pi < Len(page_rect)
    /\ page_rect[pi + 1].kind = "PageRect"
    /\ ti = Len(tables)
    /\ dpc' = "frames"
    /\ UNCHANGED <<doc, band, si, ei, page_rect, tables, ti, pi, tcurrent, yielded,
                   all_dfs, out, dexc>>
    /\ UNCHANGED <<rowsVars, fixVars, dateVars, batchVars>>

\* lines 46-50: a region, and the grids are exhausted: the loop is left and
\* the table accumulated is yielded
TablesExhausted ==
    /\ dpc = "tables"
    /\ pi < Len(page_rect)
    /\ page_rect[pi + 1].kind = "PageRect"
    /\ ti = Len(tables)
    /\ yielded' = Flush(yielded, tcurrent)
    /\ dpc' = "frames"
    /\ UNCHANGED <<doc, band, si, ei, page_rect, tables, ti, pi, tcurrent, all_dfs, out, dexc>>
    /\ UNCHANGED <<rowsVars, fixVars, dateVars, batchVars>>

\* lines 49-50: page_rect is walked through
TablesEnd ==
    /\ dpc = "tables"
    /\ pi = Len(page_rect)
    /\ yielded' = Flush(yielded, tcurrent)
    /\ dpc' = "frames"
    /\ UNCHANGED <<doc, band, si, ei, page_rect, tables, ti, pi, tcurrent, all_dfs, out, dexc>>
    /\ UNCHANGED <<rowsVars, fixVars, dateVars, batchVars>>

----------------------------------------------------------------------------
(* extract_doc: the records (__main__.py 76-84) *)

FinalRecord(account, date, description, value) ==
    [Account |-> account, Date |-> date, Description |-> description, Value |-> value]

\* lines 79-81: the dates resolved and the account put in front of each row
Frame(account, rows) ==
    [k \in 1..Len(rows) |->
        FinalRecord(account, parse_date(doc.name, rows[k].date),
                    rows[k].description, rows[k].value)]

\* pandas.concat(all_dfs, ignore_index=True)
RECURSIVE ConcatFrames(_)
ConcatFrames(fs) == IF fs = <<>> THEN <<>> ELSE Head(fs) \o ConcatFrames(Tail(fs))

\* lines 77-82: one combined table
FrameOfTable ==
    /\ dpc = "frames"
    /\ Len(all_dfs) < Len(yielded)
    /\ LET t == yielded[Len(all_dfs) + 1]
           r == extract_rows(t.rows)
       IN IF r.exc = "none"
          THEN /\ all_dfs' = Append(all_dfs, Frame(t.account, r.rows))
               /\ UNCHANGED <<dpc, dexc>>
          ELSE /\ dpc' = "raised"
               /\ dexc' = r.exc
               /\ UNCHANGED all_dfs
    /\ UNCHANGED <<doc, band, si, ei, page_rect, tables, ti, pi, tcurrent, yielded, out>>
    /\ UNCHANGED <<rowsVars, fixVars, dateVars, batchVars>>

\* line 84
ReturnDoc ==
    /\ dpc = "frames"
    /\ Len(all_dfs) = Len(yielded)
    /\ all_dfs # <<>>
    /\ out' = <<ConcatFrames(all_dfs)>>
    /\ dpc' = "returned"
    /\ UNCHANGED <<doc, band, si, ei, page_rect, tables, ti, pi, tcurrent, yielded,
                   all_dfs, dexc>>
    /\ UNCHANGED <<rowsVars, fixVars, dateVars, batchVars>>

\* line 84: pandas.concat of an empty list raises ValueError
NothingToConcat ==
    /\ dpc = "frames"
    /\ yielded = <<>>
    /\ dpc' = "raised"
    /\ dexc' = "ValueError"
    /\ UNCHANGED <<doc, band, si, ei, page_rect, tables, ti, pi, tcurrent, yielded,
                   all_dfs, out>>
    /\ UNCHANGED <<rowsVars, fixVars, dateVars, batchVars>>

NextDoc ==
    \/ TakeStart
    \/ StartFails
    \/ SkipEnd
    \/ MatchEnd
    \/ EndsExhausted
    \/ ReadPdf
    \/ TablesBreak
    \/ TablesConcat
    \/ TablesExhausted
    \/ TablesEnd
    \/ FrameOfTable
    \/ ReturnDoc
    \/ NothingToConcat

SpecDoc == InitDoc /\ [][NextDoc]_vars

\* lines 64-67: the pairing loop runs on, an iteration that can be made is
\* made
SpecDocFair == SpecDoc /\ WF_vars(SkipEnd \/ MatchEnd \/ EndsExhausted)

----------------------------------------------------------------------------
(* The batch run (__main__.py 94-104) *)

\* How extract_doc ends on a document: it returns its frame, or it raises
\* MalformedError (fix_table, extract_rows), StopIteration (line 65),
\* AttributeError (cde.py 53) or ValueError (line 84).
Outcomes == {"frame", "MalformedError", "StopIteration", "AttributeError", "ValueError"}

InitBatch ==
    /\ \E n \in 1..MaxFiles :
        /\ files \in [1..n -> Outcomes]
        /\ wstate = [i \in 1..n |-> "queued"]
    /\ finished = <<>>
    /\ all_data_per_doc = <<>>
    /\ report = <<>>
    /\ mpc = "collect"
    /\ mexc = "none"
    /\ IdleRows
    /\ IdleFix
    /\ IdleDoc
    /\ IdleDate

\* the pool is alive: the main block has not reached pool.terminate() and
\* has not died
PoolAlive == mpc \in {"collect", "collected"}

\* line 97, in the pool: a free worker takes the next task of the queue
StartTask(i) ==
    /\ PoolAlive
    /\ wstate[i] = "queued"
    /\ \A j \in 1..(i - 1) : wstate[j] # "queued"
    /\ Cardinality({j \in 1..Len(wstate) : wstate[j] = "running"}) < PoolSize
    /\ wstate' = [wstate EXCEPT ![i] = "running"]
    /\ UNCHANGED <<files, finished, all_data_per_doc, report, mpc, mexc>>
    /\ UNCHANGED <<rowsVars, fixVars, docVars, dateVars>>

\* line 97, in a worker: extract_doc is over and its result, or the
\* exception it raised, is sent back
FinishTask(i) ==
    /\ PoolAlive
    /\ wstate[i] = "running"
    /\ wstate' = [wstate EXCEPT ![i] = "done"]
    /\ finished' = Append(finished, i)
    /\ UNCHANGED <<files, all_data_per_doc, report, mpc, mexc>>
    /\ UNCHANGED <<rowsVars, fixVars, docVars, dateVars>>

\* a slip: imap_unordered, the results taken as they come
Collect_Unordered ==
    /\ mpc = "collect"
    /\ \E i \in 1..Len(files) :
        /\ wstate[i] = "done"
        /\ \A k \in 1..Len(all_data_per_doc) : all_data_per_doc[k] # i
        /\ files[i] = "frame"
        /\ all_data_per_doc' = Append(all_data_per_doc, i)
    /\ UNCHANGED <<files, wstate, finished, report, mpc, mexc>>
    /\ UNCHANGED <<rowsVars, fixVars, docVars, dateVars>>

\* line 97: list() takes the next result of imap, which hands the results
\* out in the order of files
Collect ==
    /\ mpc = "collect"
    /\ Len(all_data_per_doc) < Len(files)
    /\ LET i == Len(all_data_per_doc) + 1
       IN /\ wstate[i] = "done"
          /\ files[i] = "frame"
          /\ all_data_per_doc' = Append(all_data_per_doc, i)
    /\ UNCHANGED <<files, wstate, finished, report, mpc, mexc>>
    /\ UNCHANGED <<rowsVars, fixVars, docVars, dateVars>>

\* line 97: the next result is an exception; the iterator of imap raises
\* it in the main process, and it leaves the main block
CollectRaise ==
    /\ mpc = "collect"
    /\ Len(all_data_per_doc) < Len(files)
    /\ LET i == Len(all_data_per_doc) + 1
       IN /\ wstate[i] = "done"
          /\ files[i] \notin {"frame", "StopIteration"}
          /\ mexc' = files[i]
    /\ mpc' = "fatal"
    /\ UNCHANGED <<files, wstate, finished, all_data_per_doc, report>>
    /\ UNCHANGED <<rowsVars, fixVars, docVars, dateVars>>

\* line 97: the next result is a StopIteration; the iterator of imap raises
\* it from its __next__, which is how an iterator tells list() that it is
\* exhausted: list() returns what it has collected
CollectStop ==
    /\ mpc = "collect"
    /\ Len(all_data_per_doc) < Len(files)
    /\ LET i == Len(all_data_per_doc) + 1
       IN /\ wstate[i] = "done"
          /\ files[i] = "StopIteration"
    /\ mpc' = "collected"
    /\ UNCHANGED <<files, wstate, finished, all_data_per_doc, report, mexc>>
    /\ UNCHANGED <<rowsVars, fixVars, docVars, dateVars>>

\* line 97: every result is collected
CollectEnd ==
    /\ mpc = "collect"
    /\ Len(all_data_per_doc) = Len(files)
    /\ mpc' = "collected"
    /\ UNCHANGED <<files, wstate, finished, all_data_per_doc, report, mexc>>
    /\ UNCHANGED <<rowsVars, fixVars, docVars, dateVars>>

\* lines 98-99: the workers are stopped, whatever they are doing
Terminate ==
    /\ mpc = "collected"
    /\ wstate' = [i \in 1..Len(wstate) |->
                    IF wstate[i] = "done" THEN "done" ELSE "killed"]
    /\ mpc' = "joined"
    /\ UNCHANGED <<files, finished, all_data_per_doc, report, mexc>>
    /\ UNCHANGED <<rowsVars, fixVars, docVars, dateVars>>

\* lines 101-104: the frames collected are concatenated in the order of the
\* list and the report files are written
WriteReport ==
    /\ mpc = "joined"
    /\ all_data_per_doc # <<>>
    /\ report' = <<all_data_per_doc>>
    /\ mpc' = "written"
    /\ UNCHANGED <<files, wstate, finished, all_data_per_doc, mexc>>
    /\ UNCHANGED <<rowsVars, fixVars, docVars, dateVars>>

\* line 101: pandas.concat of an empty list raises ValueError
ConcatRaise ==
    /\ mpc = "joined"
    /\ all_data_per_doc = <<>>
    /\ mpc' = "fatal"
    /\ mexc' = "ValueError"
    /\ UNCHANGED <<files, wstate, finished, all_data_per_doc, report>>
    /\ UNCHANGED <<rowsVars, fixVars, docVars, dateVars>>

NextBatch ==
    \/ \E i \in 1..Len(files) : StartTask(i)
    \/ \E i \in 1..Len(files) : FinishTask(i)
    \/ Collect
    \/ CollectRaise
    \/ CollectStop
    \/ CollectEnd
    \/ Terminate
    \/ WriteReport
    \/ ConcatRaise

SpecBatch == InitBatch /\ [][NextBatch]_vars

----------------------------------------------------------------------------
(* Properties of extract_rows *)

\* The walk row by row and the function of the whole table agree.
WalkIsFunction ==
    /\ pc = "returned" => extract_rows(table) = [exc |-> "none", rows |-> df[1]]
    /\ pc = "raised" => extract_rows(table) = [exc |-> exc, rows |-> <<>>]

\* the records built so far, finalized or open
Records == IF pc = "loop" THEN results \o current ELSE results

\* the texts of the model that are "date" up to case and surrounding blanks
HeaderTexts == {<<" ", "D", "a", "t", "e">>}
HeaderRepeat(row) == ~isna(row[1]) /\ row[1].s \in HeaderTexts

\* a date row that is no repeated header
DateRow(row) == ~isna(row[1]) /\ ~HeaderRepeat(row)

\* date empty, description populated, no amount
ContinuationRow(row) ==
    isna(row[1]) /\ ~isna(row[2]) /\ isna(row[3]) /\ isna(row[4])

DateRowCount == Cardinality({i \in 1..Len(table) : DateRow(table[i])})
DescribedDateRowCount ==
    Cardinality({i \in 1..Len(table) : DateRow(table[i]) /\ ~isna(table[i][2])})

\* C1 as claimed: the number of output rows is the number of rows that carry
\* a date and are no repeated header.
C1_AsClaimed == pc = "returned" => Len(df[1]) = DateRowCount

\* C1 amended: the number of output rows is the number of rows that carry a
\* date AND a description and are no repeated header; while the table is
\* walked, that many records are finalized or open.
C1_RowCount ==
    /\ pc = "returned" => Len(df[1]) = DescribedDateRowCount
    /\ pc = "loop" => Len(results) + Len(current) = DescribedDateRowCount

\* C1 witness: a table returned with one record, made of a date row, a
\* continuation row merged into it and a date row without description.
C1_Witness ==
    /\ pc = "returned" /\ Len(df[1]) = 1 /\ Len(table) = 3
    /\ DateRow(table[1]) /\ ContinuationRow(table[2])
    /\ DateRow(table[3]) /\ isna(table[3][2])

\* the decimal numbers the amounts of the model stand for
Amount1250 == [coeff |-> 1250, exp |-> -2]
Amount123400 == [coeff |-> 123400, exp |-> -2]
ExactAmount(t) ==
    CASE t = <<"1", "2", ",", "5", "0">> -> Amount1250
      [] t = <<"1", " ", "2", "3", "4", ",", "0", "0">> -> Amount123400

\* C2: the record opened by a date row has value +credit when the debit is
\* empty and -debit when the credit is empty, the amount being the exact
\* decimal ("12,50" is 1250e-2, "1 234,00" is 123400e-2).
C2_SignedValue ==
    /\ Len(Records) = Len(opened)
    /\ \A k \in 1..Len(opened) :
        LET row == table[opened[k]]
            v == Records[k].value
        IN /\ isna(row[3]) /\ ~isna(row[4]) =>
                v.exp = -2 /\ v.coeff = ExactAmount(row[4].s).coeff
           /\ isna(row[4]) /\ ~isna(row[3]) =>
                v.exp = -2 /\ v.coeff = 0 - ExactAmount(row[3].s).coeff

\* C2 witness: a debit of "12,50" finalized as -12.50 and a credit of
\* "1 234,00" open as 1234.00.
C2_Witness ==
    /\ pc = "loop" /\ Len(results) = 1 /\ Len(current) = 1
    /\ isna(table[opened[1]][4]) /\ results[1].value = [coeff |-> -1250, exp |-> -2]
    /\ isna(table[opened[2]][3]) /\ current[1].value = [coeff |-> 123400, exp |-> -2]

\* C3 as claimed: every record was built from a row with exactly one of
\* debit and credit populated.
C3_ExactlyOneAmount ==
    \A k \in 1..Len(opened) :
        isna(table[opened[k]][3]) # isna(table[opened[k]][4])

\* C4 as claimed: a date row (no repeated header) without debit and credit
\* makes extract_rows raise MalformedError and return nothing.
C4_AsClaimed ==
    \A i \in 1..Len(table) :
        DateRow(table[i]) /\ isna(table[i][3]) /\ isna(table[i][4])
            => pc = "raised" /\ exc = "MalformedError" /\ df = <<>>

\* C4 amended: a date row (no repeated header) WITH A DESCRIPTION and
\* without debit and credit makes extract_rows raise MalformedError and
\* return nothing, whatever rows preceded it.
C4_RaisesMalformed ==
    \A i \in 1..Len(table) :
        DateRow(table[i]) /\ ~isna(table[i][2])
        /\ isna(table[i][3]) /\ isna(table[i][4])
            => pc = "raised" /\ exc = "MalformedError" /\ df = <<>>

\* C4 witness: the error raised by the third row, after a transaction and
\* a continuation.
C4_Witness ==
    /\ exc = "MalformedError" /\ Len(table) = 3 /\ Len(opened) = 1
    /\ ContinuationRow(table[2])
    /\ DateRow(table[3]) /\ isna(table[3][3]) /\ isna(table[3][4])

\* the step that takes a continuation row while a row is open
ContinuationStep ==
    /\ pc = "loop" /\ current # <<>>
    /\ Len(table') = Len(table) + 1
    /\ ContinuationRow(table'[Len(table')])

\* C5: a continuation row met while a row is open appends a newline and its
\* description to the open row's description; the open row's date and
\* value and the finalized rows are unchanged and no row is opened.
C5_ContinuationFrame ==
    [][ContinuationStep =>
          /\ results' = results
          /\ opened' = opened
          /\ Len(current') = 1
          /\ current'[1].date = current[1].date
          /\ current'[1].value = current[1].value
          /\ current'[1].description =
                current[1].description \o <<"\n">> \o table'[Len(table')][2].s
          /\ pc' = "loop" /\ df' = df]_vars

\* C5 witness: an open row extended by a continuation row behind a
\* finalized row.
C5_Witness ==
    /\ pc = "loop" /\ Len(results) = 1 /\ Len(current) = 1
    /\ ContinuationRow(table[Len(table)])
    /\ current[1].description = <<"b", "\n", "c">>

\* the rows that open a record, in input order, from row i on
RECURSIVE OpeningFrom(_)
OpeningFrom(i) ==
    IF i > Len(table) THEN <<>>
    ELSE (IF DateRow(table[i]) /\ ~isna(table[i][2]) THEN <<i>> ELSE <<>>)
            \o OpeningFrom(i + 1)

\* the descriptions of the continuation rows among rows i..j, in input
\* order, each behind a newline
RECURSIVE MergedFrom(_, _)
MergedFrom(i, j) ==
    IF i > j THEN <<>>
    ELSE (IF ContinuationRow(table[i]) THEN <<"\n">> \o table[i][2].s ELSE <<>>)
            \o MergedFrom(i + 1, j)

\* C15: the records come in the order of the rows that opened them: the
\* k-th record has the date, the amount and the description of the k-th
\* opening row, followed by the descriptions of the continuation rows met
\* before the next opening row, in input order.
C15_InputOrder ==
    pc \in {"loop", "returned"} =>
        LET o == OpeningFrom(1)
            recs == IF pc = "returned" THEN df[1] ELSE Records
        IN /\ Len(recs) = Len(o)
           /\ opened = o
           /\ \A k \in 1..Len(o) :
                LET last == IF k < Len(o) THEN o[k + 1] - 1 ELSE Len(table)
                IN /\ recs[k].date = table[o[k]][1].s
                   /\ recs[k].value = SignedValue(table[o[k]][3], table[o[k]][4])
                   /\ recs[k].description =
                        table[o[k]][2].s \o MergedFrom(o[k] + 1, last)

\* C15 witness: a date row, a continuation row and a second date row give
\* two records in that order, the first with the continuation merged.
C15_Witness ==
    /\ pc = "returned" /\ Len(table) = 3 /\ Len(df[1]) = 2
    /\ ContinuationRow(table[2])
    /\ df[1][1].description = <<"a", "\n", "b">>
    /\ df[1][2].description = <<"c">>

\* the rows the walk ignores: no description; or no date and no row open
\* yet; or no date and an amount; or the header printed again
NoiseRow(cur, row) ==
    \/ isna(row[2])
    \/ isna(row[1]) /\ ~isna(row[2]) /\ cur = <<>>
    \/ isna(row[1]) /\ ~isna(row[2]) /\ (~isna(row[3]) \/ ~isna(row[4]))
    \/ HeaderRepeat(row)

NoiseStep ==
    /\ pc = "loop"
    /\ Len(table') = Len(table) + 1
    /\ NoiseRow(current, table'[Len(table')])

\* C18: a row without description, a continuation row before any row is
\* open, a continuation row carrying an amount and a repeated header are
\* skipped without effect: the open row is neither changed nor closed and
\* nothing is finalized, so that a continuation row behind it still extends
\* the same open row.
C18_NoiseFrame ==
    [][NoiseStep =>
          /\ results' = results
          /\ current' = current
          /\ opened' = opened
          /\ pc' = "loop" /\ exc' = exc /\ df' = df]_vars

\* C18 witness: a date row, the header printed again with a description,
\* and a continuation row that extends the record of the date row.
C18_Witness ==
    /\ pc = "returned" /\ Len(table) = 3
    /\ DateRow(table[1])
    /\ HeaderRepeat(table[2]) /\ ~isna(table[2][2])
    /\ ContinuationRow(table[3])
    /\ Len(df[1]) = 1
    /\ df[1][1].description = <<"a", "\n", "c">>

----------------------------------------------------------------------------
(* fix_table followed by extract_rows (__main__.py 29 and 78) *)

\* A row of a statement grid of n columns, as the engine reads it: the date
\* and the debit of a transaction, or neither; a description and middle
\* cells (columns 2 .. n-2) that are each empty or not; no credit.
GridRow(r, n, txn, filled) ==
    [c \in 1..n |->
        IF c = 1 THEN (IF txn THEN S(<<"3", "/", "6">>) ELSE NA)
        ELSE IF c = n - 1 THEN (IF txn THEN S(<<"1", "2", ",", "5", "0">>) ELSE NA)
        ELSE IF c = n THEN NA
        ELSE IF c \in filled THEN S(CellText(r, c)) ELSE NA]

InitNorm ==
    /\ \E n \in Len(COLUMNS)..MaxCols, k \in 1..MaxFixRows :
        \E shape \in [1..k -> BOOLEAN \X SUBSET (2..(n - 2))] :
            \* every text column holds a text in some row: pandas reads a
            \* column without any as numbers and refuses .str on it
            /\ \A c \in 2..(n - 2) : \E r \in 1..k : c \in shape[r][2]
            /\ raw = [labels |-> SubSeq(ColNames, 1, n),
                   rows |-> [r \in 1..k |-> GridRow(r, n, shape[r][1], shape[r][2])]]
    /\ fixed = <<>>
    /\ fpc = "call"
    /\ fexc = "none"
    /\ IdleRows
    /\ IdleDoc
    /\ IdleDate
    /\ IdleBatch

\* __main__.py 78: extract_rows on a table that came through fix_table
RowsOfFixed ==
    /\ fpc = "returned"
    /\ pc = "idle"
    /\ LET r == extract_rows(fixed[1].rows)
       IN /\ df' = (IF r.exc = "none" THEN <<r.rows>> ELSE <<>>)
          /\ pc' = (IF r.exc = "none" THEN "returned" ELSE "raised")
          /\ exc' = r.exc
    /\ UNCHANGED <<table, results, current, opened>>
    /\ UNCHANGED <<fixVars, docVars, dateVars, batchVars>>

NextNorm ==
    \/ FixWide
    \/ FixExact
    \/ RowsOfFixed

SpecNorm == InitNorm /\ [][NextNorm]_vars

\* a blank filler row of the grid read: its description and its extra
\* middle cells are all empty
BlankFiller(row) == \A c \in 2..(Len(row) - 2) : isna(row[c])

\* the rows of the normalized table from r on, those that were blank filler
\* rows left out
RECURSIVE WithoutFillers(_)
WithoutFillers(r) ==
    IF r > Len(raw.rows) THEN <<>>
    ELSE (IF BlankFiller(raw.rows[r]) THEN <<>> ELSE <<fixed[1].rows[r]>>)
            \o WithoutFillers(r + 1)

\* C19: for a grid of 4 columns or more, a blank filler row is skipped
\* entirely after normalization: the records are those of the table
\* without its blank filler rows.
C19_BlankSkipped ==
    /\ pc = "returned" =>
            extract_rows(WithoutFillers(1)) = [exc |-> "none", rows |-> df[1]]
    /\ pc = "raised" => extract_rows(WithoutFillers(1)).exc = exc

----------------------------------------------------------------------------
(* Properties of extract_doc and extract_tables *)

StartsOn(p) == {k \in 1..Len(doc.starts) : doc.starts[k].page = p}
EndsOn(p) == {j \in 1..Len(doc.ends) : doc.ends[j].page = p}

\* every start has an end of its own on its page
EveryStartHasItsEnd ==
    \A p \in 1..MaxPages : Cardinality(StartsOn(p)) <= Cardinality(EndsOn(p))

\* the end matched to the k-th start: among the ends of its page, the one
\* of the same rank as the start has among the starts of its page
MatchedEnd(k) ==
    LET p == doc.starts[k].page
        rank == Cardinality({i \in StartsOn(p) : i <= k})
    IN CHOOSE j \in EndsOn(p) : Cardinality({i \in EndsOn(p) : i <= j}) = rank

\* the pairing loop is over and every start was paired
PairingDone == dpc \in {"tables", "frames", "returned"} \/ dexc = "ValueError"

\* C6: when every start has an end on its page the pairing does not fail,
\* and the region sequence built has exactly one PageRect per start, in
\* start order, with a None right after a PageRect if and only if the end
\* matched to its start is a hard break.
C6_RegionSequence ==
    /\ EveryStartHasItsEnd => dexc # "StopIteration"
    /\ PairingDone =>
        /\ EveryStartHasItsEnd
        /\ Len(Regions(page_rect)) = Len(doc.starts)
        /\ \A k \in 1..Len(doc.starts) :
            /\ Regions(page_rect)[k].page = doc.starts[k].page
            /\ Regions(page_rect)[k].account = doc.starts[k].account
            /\ Regions(page_rect)[k].rect = <<k, MatchedEnd(k)>>
        /\ \A i \in 1..Len(page_rect) :
            IF page_rect[i].kind = "PageRect"
            THEN (i < Len(page_rect) /\ page_rect[i + 1].kind = "None")
                    <=> doc.ends[page_rect[i].rect[2]].is_break
            ELSE i > 1 /\ page_rect[i - 1].kind = "PageRect"

\* C6 witness: two starts on page 1 matched to a hard and a soft end, and a
\* start on page 2 matched to a hard end: PageRect, None, PageRect,
\* PageRect, None.
C6_Witness ==
    /\ PairingDone
    /\ Len(page_rect) = 5
    /\ page_rect[2].kind = "None" /\ page_rect[5].kind = "None"
    /\ page_rect[3].page = 1 /\ page_rect[4].page = 2

\* the maximal runs of PageRects of q that no None separates, each as the
\* ranks of its PageRects among the PageRects of q
RECURSIVE RunsFrom(_, _, _, _)
RunsFrom(q, i, k, run) ==
    IF i > Len(q) THEN (IF run = <<>> THEN <<>> ELSE <<run>>)
    ELSE IF q[i].kind = "None"
         THEN (IF run = <<>> THEN <<>> ELSE <<run>>) \o RunsFrom(q, i + 1, k, <<>>)
         ELSE RunsFrom(q, i + 1, k + 1, Append(run, k + 1))

Runs == RunsFrom(page_rect, 1, 0, <<>>)

\* the rows of the grids of a run, one grid after the other
RECURSIVE RowsOfRun(_)
RowsOfRun(run) == IF run = <<>> THEN <<>> ELSE Grid(Head(run)) \o RowsOfRun(Tail(run))

\* extract_tables is over
TablesDone == dpc \in {"frames", "returned"} \/ dexc = "ValueError"

\* the engine read a grid in every region
AllRead == Len(tables) = Len(Regions(page_rect))

\* the run that holds the k-th region
RunOf(k) == CHOOSE j \in 1..Len(Runs) : \E i \in 1..Len(Runs[j]) : Runs[j][i] = k

\* C7: when the engine returns one grid per PageRect, extract_tables yields
\* one combined table per maximal run of PageRects without a None between
\* them, made of the rows of the run's grids in order (the last run is
\* flushed at the end); a None separates tables, so a break followed by a
\* single header with another account gives two tables with two accounts,
\* and the records returned follow the order of the regions.
C7_CombinedTables ==
    /\ TablesDone /\ AllRead =>
        /\ Len(yielded) = Len(Runs)
        /\ \A j \in 1..Len(Runs) :
            /\ yielded[j].regions = Runs[j]
            /\ yielded[j].rows = RowsOfRun(Runs[j])
        /\ \A j \in 1..(Len(Runs) - 1) :
            LET a == Regions(page_rect)[Runs[j][Len(Runs[j])]].account
                b == Regions(page_rect)[Runs[j + 1][1]].account
            IN Len(Runs[j + 1]) = 1 /\ a # b =>
                /\ yielded[j].account = a /\ yielded[j + 1].account = b
                /\ yielded[j].account # yielded[j + 1].account
    /\ dpc = "returned" /\ AllRead =>
        /\ Len(out[1]) = Len(Regions(page_rect))
        /\ \A k \in 1..Len(out[1]) :
            /\ out[1][k].Account = yielded[RunOf(k)].account
            /\ out[1][k].Description[1] = Letters[k]

\* C7 witness: page 1 closed by a hard break, page 2 with a header of
\* another account; two tables, two records, accounts N1 and N2.
C7_Witness ==
    /\ dpc = "returned" /\ AllRead
    /\ Len(page_rect) >= 3
    /\ page_rect[1].page = 1 /\ page_rect[2].kind = "None" /\ page_rect[3].page = 2
    /\ Len(yielded) = 2
    /\ Len(out[1]) = 2 /\ out[1][1].Account = "N1" /\ out[1][2].Account = "N2"
    /\ out[1][2].Description = <<"b">>

\* C8 as claimed: the account of a combined table is the account of every
\* PageRect whose grid was concatenated into it.
C8_OneAccount ==
    TablesDone /\ AllRead =>
        \A j \in 1..Len(yielded) :
            \A i \in 1..Len(yielded[j].regions) :
                Regions(page_rect)[yielded[j].regions[i]].account = yielded[j].account

\* the entries of q that extract_tables walks with g grids: all those before
\* the PageRect of rank g + 1
RECURSIVE Walked(_, _)
Walked(q, g) ==
    IF q = <<>> THEN <<>>
    ELSE IF Head(q).kind = "None" THEN <<Head(q)>> \o Walked(Tail(q), g)
    ELSE IF g = 0 THEN <<>>
    ELSE <<Head(q)>> \o Walked(Tail(q), g - 1)

WalkedRuns == RunsFrom(Walked(page_rect, Len(tables)), 1, 0, <<>>)

\* the rows of the grids returned whose ranks are in run, in order
RECURSIVE GridRows(_)
GridRows(run) ==
    IF run = <<>> THEN <<>> ELSE tables[Head(run)].rows \o GridRows(Tail(run))

\* C11: when the engine returns fewer grids than there are PageRects,
\* extract_tables raises nothing: the tables of the runs walked before the
\* grids ran out are yielded as they are with enough grids, the table
\* accumulated when the grids run out is yielded, and the PageRects from
\* that point on give no table and no record.
C11_FewerGrids ==
    /\ dpc \in {"tables", "frames", "returned"} /\ ~AllRead => dexc = "none"
    /\ TablesDone /\ ~AllRead =>
        /\ dexc # "StopIteration"
        /\ dexc = "ValueError" => yielded = <<>>
        /\ ti = Len(tables) /\ pi < Len(page_rect)
        /\ Len(yielded) = Len(WalkedRuns)
        /\ \A j \in 1..Len(WalkedRuns) :
            /\ yielded[j].rows = GridRows(WalkedRuns[j])
            /\ Len(yielded[j].regions) = Len(WalkedRuns[j])
    /\ dpc = "returned" /\ ~AllRead => Len(out[1]) = Len(tables)

\* C11 witness: three regions and one grid; the first region's grid is in
\* the table accumulated when the second region finds no grid, and that
\* table is yielded and gives the only record.
C11_Witness ==
    /\ dpc = "returned"
    /\ Len(Regions(page_rect)) = 3 /\ Len(tables) = 1
    /\ page_rect[1].kind = "PageRect" /\ page_rect[2].kind = "PageRect"
    /\ Len(yielded) = 1 /\ Len(out[1]) = 1

----------------------------------------------------------------------------
(* Properties of iter_starts *)

\* a header was found and the band above it holds no account pattern
NoAccountPattern ==
    /\ band # <<>>
    /\ \A i \in 1..Len(band) :
            ~(i + 2 <= Len(band) /\ band[i] = "N" /\ band[i + 1] = "°"
                /\ (IsSpace(band[i + 2]) \/ IsDigit(band[i + 2]) \/ IsLower(band[i + 2])))

\* C13: a header whose band holds no account pattern makes iter_starts fail
\* with MalformedError, and no PageRect is produced for that header
C13_MalformedError ==
    NoAccountPattern =>
        /\ dpc = "raised" /\ dexc = "MalformedError"
        /\ \A k \in 1..Len(page_rect) :
                page_rect[k] # None => page_rect[k].rect[1] <= si

----------------------------------------------------------------------------
(* Properties of parse_date *)

\* the date cell names a day of the calendar, in the year the rule gives it
RolledBack == stmt.month = 1 /\ date_in.month = 12
ResolvedYear == IF RolledBack THEN stmt.year - 1 ELSE stmt.year
CalendarDay ==
    LET last == IF date_in.month = 2
                THEN (IF ResolvedYear \in {2020, 2024} THEN 29 ELSE 28)
                ELSE IF date_in.month \in {4, 6, 9, 11} THEN 30 ELSE 31
    IN date_in.day <= last

\* C14: for a statement of year Y and a valid day/month cell, parse_date
\* returns (Y - 1, month, day) exactly when the statement is of January and
\* the cell of December, and (Y, month, day) otherwise.
C14_YearRollover ==
    /\ date_pc = "returned" =>
        /\ date_out[1].month = date_in.month
        /\ date_out[1].day = date_in.day
        /\ RolledBack => date_out[1].year = stmt.year - 1
        /\ ~RolledBack => date_out[1].year = stmt.year
    /\ date_pc = "raised" => ~CalendarDay

\* C14 witness: a December date in a January statement, returned in the
\* year before.
C14_Witness ==
    /\ date_pc = "returned"
    /\ stmt.month = 1 /\ date_in.month = 12 /\ date_in.day = 31
    /\ date_out[1] = [year |-> stmt.year - 1, month |-> 12, day |-> 31]

----------------------------------------------------------------------------
(* Properties of the pairing loop on laid out pages *)

\* the ends of the page of start k that lie below its header
EndsBelow(k) ==
    {j \in 1..Len(doc.ends) :
        doc.ends[j].page = doc.starts[k].page /\ doc.ends[j].y > doc.starts[k].y}

\* C16 as claimed: every start is paired with an end of its page, and that
\* end is the nearest one below the start's header.
C16_NearestEnd ==
    \A i \in 1..Len(page_rect) :
        page_rect[i].kind = "PageRect" =>
            LET k == page_rect[i].rect[1]
                j == page_rect[i].rect[2]
            IN /\ doc.ends[j].page = doc.starts[k].page
               /\ j \in EndsBelow(k)
               /\ \A l \in EndsBelow(k) : doc.ends[j].y <= doc.ends[l].y

\* the start taken last has no end left on its page
Stranded ==
    /\ dpc = "ends"
    /\ \A j \in (ei + 1)..Len(doc.ends) : doc.ends[j].page # doc.starts[si].page

\* C17: when a start has no end left on its page, the pairing loop ends:
\* the start is paired with no end, of its page or of another, and
\* extract_doc is left by an exception (StopIteration) without returning
\* any record.
C17_NoEndLeft ==
    /\ [][Stranded => page_rect' = page_rect /\ dpc' \in {"ends", "raised"}]_vars
    /\ [](\A i \in 1..Len(page_rect) :
            page_rect[i].kind = "PageRect" =>
                doc.ends[page_rect[i].rect[2]].page = page_rect[i].page)
    /\ Stranded ~> (dpc = "raised" /\ dexc = "StopIteration" /\ out = <<>>)
    /\ [][dpc = "raised" => FALSE]_vars

\* C17 witness: a start with no end on its page and an end on a later
\* page: the end was passed over, the start is not paired and extract_doc
\* has raised.
C17_Witness ==
    /\ dpc = "raised" /\ dexc = "StopIteration" /\ out = <<>>
    /\ si >= 1 /\ ei = Len(doc.ends)
    /\ \E j \in 1..Len(doc.ends) : doc.ends[j].page > doc.starts[si].page
    /\ Len(Regions(page_rect)) = si - 1

----------------------------------------------------------------------------
(* Properties of the batch run *)

\* C12: the report is written only once the worker of every document has
\* completed, and when extract_doc fails on a document the batch ends in a
\* fatal error and no report is written.
C12_AllOrNothing ==
    /\ report # <<>> => \A i \in 1..Len(files) : wstate[i] = "done"
    /\ mpc \in {"written", "fatal"} /\ (\E i \in 1..Len(files) : files[i] # "frame") =>
            mpc = "fatal" /\ mexc # "none" /\ report = <<>>

\* C20: when extract_doc returns a frame for every document, the report
\* holds the frames of the documents in the order of the file list,
\* whatever the order in which the workers completed.
C20_FileOrder ==
    /\ \A k \in 1..Len(all_data_per_doc) : all_data_per_doc[k] = k
    /\ mpc = "written" /\ (\A i \in 1..Len(files) : files[i] = "frame") =>
            report = <<[i \in 1..Len(files) |-> i]>>

\* C20 witness: three documents whose workers completed in the order 2, 3,
\* 1, and the report in the order 1, 2, 3.
C20_Witness ==
    /\ mpc = "written"
    /\ \A i \in 1..Len(files) : files[i] = "frame"
    /\ finished = <<2, 3, 1>>
    /\ report = <<(<<1, 2, 3>>)>>

====
